---------------------------- MODULE Spec2Model ----------------------------
(***************************************************************************)
(* A model of libwebvtt's WebVTT parser (webvttparser.cc): the character   *)
(* and line layer, header parsing (Parser::Init), cue parsing              *)
(* (Parser::Parse) with the timings-line, time, settings and number        *)
(* scanners, and the Time value type.                                      *)
(*                                                                         *)
(* Characters are byte values 0..255.  A std::string is a sequence of      *)
(* bytes; a C++ index idx (0-based) reads element idx+1 of the sequence.   *)
(***************************************************************************)
EXTENDS Integers, Sequences, FiniteSets, TLC

VARIABLES
  stream,     \* the bytes the character source holds (fixed for a behaviour)
  rdEnd,      \* what the source returns once its bytes are used up: 1 (EOF) or a negative error code
  pos,        \* index in stream of the next byte the source will deliver
  unget,      \* Parser::unget_ : -1, or the pushed-back byte
  cue,        \* the caller's Cue record
  ret,        \* the value the last call returned
  op,         \* the last call made: "new", "Init", "Parse", "GetChar", or a pure-function step
  calls,      \* number of Parse calls made so far
  preRem,     \* history: the bytes not yet delivered when the last call started
  cueIn,      \* history: the Cue the caller passed to the last Parse call
  delivered,  \* history: the bytes GetChar delivered after Init returned
  got,        \* history: the cues the successful Parse calls returned, in order
  shape,      \* history: how the stream was put together
  tin,        \* input of a pure-function step
  tout,       \* result of a pure-function step
  io          \* history: what the last call did with the source and the pushback slot

vars == <<stream, rdEnd, pos, unget, cue, ret, op, calls, preRem, cueIn,
          delivered, got, shape, tin, tout, io>>

----------------------------------------------------------------------------
(* Characters *)

kNUL == 0
kSPACE == 32
kTAB == 9
kLF == 10
kCR == 13

\* The printable ASCII characters, in code order starting at 32 (the quote
\* characters and the backslash are spelled out and not used).
AsciiTable ==
  << " ", "!", "dquote", "#", "$", "%", "&", "'", "(", ")", "*", "+", ",", "-", ".", "/",
     "0", "1", "2", "3", "4", "5", "6", "7", "8", "9", ":", ";", "<", "=", ">", "?",
     "@", "A", "B", "C", "D", "E", "F", "G", "H", "I", "J", "K", "L", "M", "N", "O",
     "P", "Q", "R", "S", "T", "U", "V", "W", "X", "Y", "Z", "[", "bslash", "]", "^", "_",
     "bquote", "a", "b", "c", "d", "e", "f", "g", "h", "i", "j", "k", "l", "m", "n", "o",
     "p", "q", "r", "s", "t", "u", "v", "w", "x", "y", "z", "{", "|", "}", "~" >>

\* The byte value of a printable ASCII character.
Ord(c) == 31 + (CHOOSE i \in 1..Len(AsciiTable) : AsciiTable[i] = c)

\* The bytes of a string literal, given one character at a time.
Txt(cs) == [i \in 1..Len(cs) |-> Ord(cs[i])]

\* static const char BOM[] = "\xEF\xBB\xBF"
BOM == <<239, 187, 191>>

\* const char idstr[] = "WEBVTT"
idstr == Txt(<<"W", "E", "B", "V", "T", "T">>)

\* The lexeme of the arrow token.
Arrow == Txt(<<"-", "-", ">">>)

chColon == Ord(":")
chDot == Ord(".")
chZero == Ord("0")

----------------------------------------------------------------------------
(* The character source and the one-character pushback *)

\* A parser's position at the start of a call: the source's read index and
\* the pushback slot.  The other fields are the history of the call: the
\* number of reads made from the source (reads), how many of them the source
\* answered with its end code (ends), the characters GetChar delivered and
\* the scanners kept (seen), and whether UngetChar was called with the slot
\* occupied (clobbered).
PState(p, u) ==
  [pos |-> p, unget |-> u, reads |-> 0, ends |-> 0, seen |-> <<>>,
   clobbered |-> FALSE]

\* Reader::GetChar : the next byte, or the source's end code (1 EOF, < 0 error).
ReaderGetChar(p) ==
  IF p.pos <= Len(stream)
    THEN [e |-> 0, c |-> stream[p.pos],
          p |-> [p EXCEPT !.pos = p.pos + 1, !.reads = p.reads + 1,
                          !.seen = Append(p.seen, stream[p.pos])]]
    ELSE [e |-> rdEnd, c |-> kNUL,
          p |-> [p EXCEPT !.reads = p.reads + 1, !.ends = p.ends + 1]]

GetChar(p) ==
  IF p.unget >= 0
    THEN [e |-> 0, c |-> p.unget,
          p |-> [p EXCEPT !.unget = -1, !.seen = Append(p.seen, p.unget)]]
    ELSE ReaderGetChar(p)

\* The scanner gives back the character it was delivered last.
UngetChar(p, c) ==
  [p EXCEPT !.unget = c,
            !.seen = SubSeq(p.seen, 1, Len(p.seen) - 1),
            !.clobbered = p.clobbered \/ p.unget >= 0]

\* The bytes a parser in position p has still to deliver: pushback slot first.
Remaining(p) ==
  (IF p.unget >= 0 THEN <<p.unget>> ELSE <<>>)
    \o SubSeq(stream, p.pos, Len(stream))

----------------------------------------------------------------------------
(* Line layer *)
(* A scanning step that follows a call is an operator that takes the       *)
(* call's result: g is a GetChar result [e, c, p], l a ParseLine result    *)
(* [e, line, p].                                                           *)

RECURSIVE ParseBOMFrom(_, _)

\* The body of the loop of ParseBOM, after GetChar.
ParseBOMStep(g, i) ==
  IF g.e < 0 THEN [e |-> g.e, p |-> g.p]
  ELSE IF g.e > 0 THEN [e |-> 1, p |-> g.p]
  ELSE IF g.c # BOM[i + 1]
    THEN IF i = 0
           THEN [e |-> 0, p |-> UngetChar(g.p, g.c)]
           ELSE [e |-> -1, p |-> g.p]
  ELSE ParseBOMFrom(g.p, i + 1)

ParseBOMFrom(p, i) ==
  IF i >= 3 THEN [e |-> 0, p |-> p] ELSE ParseBOMStep(GetChar(p), i)

ParseBOM(p) == ParseBOMFrom(p, 0)

\* Mutant of AfterCR: the character after a bare CR is not pushed back.
AfterCRDropsChar(g) ==
  IF g.e < 0 THEN [e |-> g.e, p |-> g.p] ELSE [e |-> 0, p |-> g.p]

\* AfterCR giving back the LF of a CR LF pair.
AfterCRKeepsLF(g) ==
  IF g.e < 0 THEN [e |-> g.e, p |-> g.p]
  ELSE IF g.e > 0 THEN [e |-> 0, p |-> g.p]
  ELSE [e |-> 0, p |-> UngetChar(g.p, g.c)]

\* AfterCR taking a source error after the CR for the end of the stream.
AfterCRIgnoresError(g) ==
  IF g.e # 0 THEN [e |-> 0, p |-> g.p]
  ELSE IF g.c = kLF THEN [e |-> 0, p |-> g.p]
  ELSE [e |-> 0, p |-> UngetChar(g.p, g.c)]

\* AfterCR giving back two characters, the CR and the one after it, as if
\* the pushback were a stack.
AfterCRUngetsBoth(g) ==
  IF g.e < 0 THEN [e |-> g.e, p |-> g.p]
  ELSE IF g.e > 0 THEN [e |-> 0, p |-> g.p]
  ELSE IF g.c = kLF THEN [e |-> 0, p |-> g.p]
  ELSE [e |-> 0, p |-> UngetChar(UngetChar(g.p, kCR), g.c)]

\* ParseLineTerminator after a CR, once the next character was asked for.
AfterCR(g) ==
  IF g.e < 0 THEN [e |-> g.e, p |-> g.p]
  ELSE IF g.e > 0 THEN [e |-> 0, p |-> g.p]
  ELSE IF g.c = kLF THEN [e |-> 0, p |-> g.p]
  ELSE [e |-> 0, p |-> UngetChar(g.p, g.c)]

ParseLineTerminator(c, p) ==
  IF c = kLF THEN [e |-> 0, p |-> p]
  ELSE IF c # kCR THEN [e |-> -1, p |-> p]
  ELSE AfterCR(GetChar(p))

\* ParseLine's return after ParseLineTerminator returned t.
LineTerminated(t, line) ==
  [e |-> IF t.e < 0 THEN t.e ELSE 0, line |-> line, p |-> t.p]

RECURSIVE ParseLineFrom(_, _)

\* The body of the loop of ParseLine, after GetChar.
ParseLineStep(g, line) ==
  IF g.e < 0 THEN [e |-> g.e, line |-> line, p |-> g.p]
  ELSE IF g.e > 0
    THEN [e |-> IF line = <<>> THEN 1 ELSE 0, line |-> line, p |-> g.p]
  ELSE IF g.c = kLF \/ g.c = kCR
    THEN LineTerminated(ParseLineTerminator(g.c, g.p), line)
  ELSE ParseLineFrom(g.p, Append(line, g.c))

\* The index in the source, from index i on, of the next LF or CR; one past
\* the last byte if there is none.
NextTerminator(i) ==
  IF \E j \in i..Len(stream) : stream[j] = kLF \/ stream[j] = kCR
    THEN CHOOSE j \in i..Len(stream) :
           /\ stream[j] = kLF \/ stream[j] = kCR
           /\ \A k \in i..(j - 1) : stream[k] # kLF /\ stream[k] # kCR
    ELSE Len(stream) + 1

\* The loop of ParseLine.  With the pushback slot empty, the iterations that
\* read an ordinary character from the source and push it onto the line are
\* taken together: they read up to the next LF, CR or the end of the source.
ParseLineFrom(p, line) ==
  IF p.unget >= 0
    THEN ParseLineStep(GetChar(p), line)
    ELSE ParseLineStep(GetChar([p EXCEPT
                                 !.pos = NextTerminator(p.pos),
                                 !.reads = p.reads + (NextTerminator(p.pos) - p.pos),
                                 !.seen = p.seen \o SubSeq(stream, p.pos,
                                                           NextTerminator(p.pos) - 1)]),
                       line \o SubSeq(stream, p.pos, NextTerminator(p.pos) - 1))

ParseLine(p) == ParseLineFrom(p, <<>>)

----------------------------------------------------------------------------
(* Parser::Init *)

RECURSIVE InitSignature(_, _)

\* The body of the "WEBVTT" loop, after GetChar.
InitSignatureStep(g, i) ==
  IF g.e < 0 THEN [e |-> g.e, p |-> g.p]
  ELSE IF g.e > 0 THEN [e |-> -1, p |-> g.p]
  ELSE IF g.c # idstr[i] THEN [e |-> -1, p |-> g.p]
  ELSE InitSignature(g.p, i + 1)

InitSignature(p, i) ==
  IF i > Len(idstr) THEN [e |-> 0, p |-> p]
  ELSE InitSignatureStep(GetChar(p), i)

\* Mutant of InitSecondLine: a non-empty second line is let through.
InitSecondLineLenient(l2) ==
  IF l2.e < 0 THEN [e |-> l2.e, p |-> l2.p] ELSE [e |-> 0, p |-> l2.p]

\* After the second ParseLine: the line must be empty.
InitSecondLine(l2) ==
  IF l2.e < 0 THEN [e |-> l2.e, p |-> l2.p]
  ELSE IF l2.e > 0 THEN [e |-> 0, p |-> l2.p]
  ELSE IF l2.line # <<>> THEN [e |-> -1, p |-> l2.p]
  ELSE [e |-> 0, p |-> l2.p]

\* After the first ParseLine: what follows "WEBVTT" on its line.
InitFirstLine(l1) ==
  IF l1.e < 0 THEN [e |-> l1.e, p |-> l1.p]
  ELSE IF l1.e > 0 THEN [e |-> 0, p |-> l1.p]
  ELSE IF l1.line # <<>> /\ l1.line[1] # kSPACE /\ l1.line[1] # kTAB
    THEN [e |-> -1, p |-> l1.p]
  ELSE InitSecondLine(ParseLine(l1.p))

\* After the "WEBVTT" loop.
InitAfterSignature(s) == IF s.e # 0 THEN s ELSE InitFirstLine(ParseLine(s.p))

\* After ParseBOM.
InitAfterBOM(b) ==
  IF b.e < 0 THEN [e |-> b.e, p |-> b.p]
  ELSE IF b.e > 0 THEN [e |-> -1, p |-> b.p]
  ELSE InitAfterSignature(InitSignature(b.p, 1))

ParserInit(p) == InitAfterBOM(ParseBOM(p))

----------------------------------------------------------------------------
(* Integer widths.  An int is 32 bits wide; long long and presentation_t   *)
(* are 64 bits wide and are held as four 16-bit limbs, least significant   *)
(* first, in two's complement.                                             *)

INT_MAX == 2147483647

LimbBase == 256 * 256

\* The 64-bit value of an int.
W64(n) ==
  IF n >= 0
    THEN <<n % LimbBase, n \div LimbBase, 0, 0>>
    ELSE <<n % LimbBase, (n \div LimbBase) % LimbBase, LimbBase - 1, LimbBase - 1>>

\* x * k in 64 bits, for 0 <= k < 2^15.
WMulSmall(x, k) ==
  LET a1 == x[1] * k
      a2 == x[2] * k + (a1 \div LimbBase)
      a3 == x[3] * k + (a2 \div LimbBase)
      a4 == x[4] * k + (a3 \div LimbBase)
  IN <<a1 % LimbBase, a2 % LimbBase, a3 % LimbBase, a4 % LimbBase>>

WAdd(x, y) ==
  LET a1 == x[1] + y[1]
      a2 == x[2] + y[2] + (a1 \div LimbBase)
      a3 == x[3] + y[3] + (a2 \div LimbBase)
      a4 == x[4] + y[4] + (a3 \div LimbBase)
  IN <<a1 % LimbBase, a2 % LimbBase, a3 % LimbBase, a4 % LimbBase>>

WSub(x, y) ==
  LET a1 == x[1] - y[1]
      a2 == x[2] - y[2] + (a1 \div LimbBase)
      a3 == x[3] - y[3] + (a2 \div LimbBase)
      a4 == x[4] - y[4] + (a3 \div LimbBase)
  IN <<a1 % LimbBase, a2 % LimbBase, a3 % LimbBase, a4 % LimbBase>>

\* x / k for a non-negative x and 0 < k < 2^15.
WDivSmall(x, k) ==
  LET q4 == x[4] \div k
      r4 == x[4] % k
      q3 == (r4 * LimbBase + x[3]) \div k
      r3 == (r4 * LimbBase + x[3]) % k
      q2 == (r3 * LimbBase + x[2]) \div k
      r2 == (r3 * LimbBase + x[2]) % k
      q1 == (r2 * LimbBase + x[1]) \div k
  IN <<q1, q2, q3, q4>>

WNegative(x) == x[4] >= LimbBase \div 2

\* x < y, as signed 64-bit values.
WLess(x, y) ==
  IF WNegative(x) # WNegative(y) THEN WNegative(x)
  ELSE \/ x[4] < y[4]
       \/ x[4] = y[4] /\ x[3] < y[3]
       \/ x[4] = y[4] /\ x[3] = y[3] /\ x[2] < y[2]
       \/ x[4] = y[4] /\ x[3] = y[3] /\ x[2] = y[2] /\ x[1] < y[1]

\* static_cast<int>(x): the low 32 bits, as a signed value.
WToInt(x) ==
  IF x[2] >= LimbBase \div 2
    THEN (x[2] - LimbBase) * LimbBase + x[1]
    ELSE x[2] * LimbBase + x[1]

\* Whether the 64-bit value x is the value of some int.
WFitsInt(x) == x = W64(WToInt(x))

\* a / b as C++ divides ints (towards zero), for b > 0.
CDiv(a, b) ==
  LET q == a \div b IN IF a < 0 /\ a % b # 0 THEN q + 1 ELSE q

----------------------------------------------------------------------------
(* Scanners over a line.  idx is the C++ (0-based) index. *)

\* line[idx]: the byte at idx, or the terminating NUL at idx = length.
CharAt(line, idx) == IF idx < Len(line) THEN line[idx + 1] ELSE kNUL

\* isdigit(c) in the C locale.
IsDigit(c) == c >= chZero /\ c <= chZero + 9

\* The digit loop of ParseNumber: val is a long long.
RECURSIVE ParseNumberFrom(_, _, _)

\* The body of the digit loop without the comparison with INT_MAX.
ParseNumberStepNoCheck(line, idx, v) == ParseNumberFrom(line, idx + 1, v)

\* The body of the digit loop once val was multiplied and added to (v).
ParseNumberStep(line, idx, v) ==
  IF WLess(W64(INT_MAX), v) THEN [val |-> -1, idx |-> idx]
  ELSE ParseNumberFrom(line, idx + 1, v)

ParseNumberFrom(line, idx, val) ==
  IF ~IsDigit(CharAt(line, idx)) THEN [val |-> WToInt(val), idx |-> idx]
  ELSE ParseNumberStep(line, idx,
         WAdd(WMulSmall(val, 10), W64(CharAt(line, idx) - chZero)))

ParseNumber(line, idx) ==
  IF idx >= Len(line) THEN [val |-> -1, idx |-> idx]
  ELSE IF ~IsDigit(CharAt(line, idx)) THEN [val |-> -1, idx |-> idx]
  ELSE ParseNumberFrom(line, idx, W64(0))

RECURSIVE SkipBlanks(_, _)
SkipBlanks(line, idx) ==
  IF CharAt(line, idx) = kSPACE \/ CharAt(line, idx) = kTAB
    THEN SkipBlanks(line, idx + 1)
    ELSE idx

Time(h, m, s, ms) == [hours |-> h, minutes |-> m, seconds |-> s, milliseconds |-> ms]

\* The check for junk that immediately follows the time specifier.
ParseTimeJunk(line, idx, t) ==
  IF CharAt(line, idx) # kNUL /\ CharAt(line, idx) # kSPACE /\ CharAt(line, idx) # kTAB
    THEN [e |-> -1, idx |-> idx, t |-> t]
    ELSE [e |-> 0, idx |-> idx, t |-> t]

\* The milliseconds a fraction of val stands for.
MillisOf(val) ==
  IF val < 10 THEN val * 100 ELSE IF val < 100 THEN val * 10 ELSE val

\* After the ParseNumber that follows the FULL STOP.
ParseTimeFraction(line, t, n) ==
  IF n.val < 0 THEN [e |-> n.val, idx |-> n.idx, t |-> t]
  ELSE IF n.val >= 1000 THEN [e |-> -1, idx |-> n.idx, t |-> t]
  ELSE ParseTimeJunk(line, n.idx, [t EXCEPT !.milliseconds = MillisOf(n.val)])

\* The milliseconds part of ParseTime, after hours, minutes and seconds (r).
ParseTimeMillis(line, r) ==
  IF r.e # 0 THEN r
  ELSE IF CharAt(line, r.idx) # chDot
    THEN ParseTimeJunk(line, r.idx, [r.t EXCEPT !.milliseconds = 0])
  ELSE ParseTimeFraction(line, r.t, ParseNumber(line, r.idx + 1))

\* The SS (only) branch without the conversion: the total stays in seconds.
TimeFromSecondsKeepsTotal(t, val) ==
  [t EXCEPT !.seconds = val, !.minutes = 0, !.hours = 0]

\* The SS (only) branch: the total number of seconds, converted to HH:MM:SS.
TimeFromSeconds(t, val) ==
  [t EXCEPT !.seconds = val - CDiv(val, 60) * 60,
            !.minutes = CDiv(val, 60) - CDiv(CDiv(val, 60), 60) * 60,
            !.hours = CDiv(CDiv(val, 60), 60)]

\* ParseTimeThird without the range check of the seconds.
ParseTimeThirdLenient(t2, n3) ==
  IF n3.val < 0 THEN [e |-> n3.val, idx |-> n3.idx, t |-> t2]
  ELSE [e |-> 0, idx |-> n3.idx, t |-> [t2 EXCEPT !.seconds = n3.val]]

\* HH:MM:SS, after the third ParseNumber; t2 has the hours and minutes.
ParseTimeThird(t2, n3) ==
  IF n3.val < 0 THEN [e |-> n3.val, idx |-> n3.idx, t |-> t2]
  ELSE IF n3.val >= 60 THEN [e |-> -1, idx |-> n3.idx, t |-> t2]
  ELSE [e |-> 0, idx |-> n3.idx, t |-> [t2 EXCEPT !.seconds = n3.val]]

\* [HH:]MM:SS, after the second ParseNumber.
ParseTimeSecond(line, t, n1, n2) ==
  IF n2.val < 0 THEN [e |-> n2.val, idx |-> n2.idx, t |-> t]
  ELSE IF n2.val >= 60 THEN [e |-> -1, idx |-> n2.idx, t |-> t]
  ELSE IF CharAt(line, n2.idx) = chColon
    THEN ParseTimeThird([t EXCEPT !.hours = n1.val, !.minutes = n2.val],
                        ParseNumber(line, n2.idx + 1))
  ELSE IF n1.val >= 60 THEN [e |-> -1, idx |-> n2.idx, t |-> t]
  ELSE [e |-> 0, idx |-> n2.idx,
        t |-> [t EXCEPT !.hours = 0, !.minutes = n1.val, !.seconds = n2.val]]

\* After the first ParseNumber: hours, minutes and seconds.
ParseTimeFirst(line, t, n1) ==
  IF n1.val < 0 THEN [e |-> n1.val, idx |-> n1.idx, t |-> t]
  ELSE IF CharAt(line, n1.idx) = chColon
    THEN ParseTimeSecond(line, t, n1, ParseNumber(line, n1.idx + 1))
  ELSE [e |-> 0, idx |-> n1.idx, t |-> TimeFromSeconds(t, n1.val)]

\* ParseTime: the result code, the index reached and the Time as written so far.
ParseTime(line, idx0, t) ==
  IF idx0 >= Len(line) THEN [e |-> -1, idx |-> idx0, t |-> t]
  ELSE ParseTimeMillis(line,
         ParseTimeFirst(line, t, ParseNumber(line, SkipBlanks(line, idx0))))

Setting(n, v) == [name |-> n, value |-> v]

IsBlankOrNul(c) == c = kNUL \/ c = kSPACE \/ c = kTAB

\* The NAME loop: the index of the colon, or an error at a NUL, space or tab.
RECURSIVE ScanName(_, _, _)
ScanName(line, idx, name) ==
  IF CharAt(line, idx) = chColon THEN [e |-> 0, idx |-> idx, text |-> name]
  ELSE IF IsBlankOrNul(CharAt(line, idx)) THEN [e |-> -1, idx |-> idx, text |-> name]
  ELSE ScanName(line, idx + 1, Append(name, CharAt(line, idx)))

\* The VALUE loop: the index of the NUL, space or tab, or an error at a colon.
RECURSIVE ScanValue(_, _, _)
ScanValue(line, idx, value) ==
  IF IsBlankOrNul(CharAt(line, idx)) THEN [e |-> 0, idx |-> idx, text |-> value]
  ELSE IF CharAt(line, idx) = chColon THEN [e |-> -1, idx |-> idx, text |-> value]
  ELSE ScanValue(line, idx + 1, Append(value, CharAt(line, idx)))

RECURSIVE SettingsLoop(_, _, _)

\* After the VALUE loop (v) of the setting named name.
SettingsAfterValue(line, settings, name, v) ==
  IF v.e < 0 \/ v.text = <<>>
    THEN [e |-> -1, settings |-> Append(settings, Setting(name, v.text))]
    ELSE SettingsLoop(line, v.idx, Append(settings, Setting(name, v.text)))

\* After the NAME loop (n).
SettingsAfterName(line, settings, n) ==
  IF n.e < 0 \/ n.text = <<>>
    THEN [e |-> -1, settings |-> Append(settings, Setting(n.text, <<>>))]
    ELSE SettingsAfterValue(line, settings, n.text, ScanValue(line, n.idx + 1, <<>>))

\* After the whitespace that precedes a NAME:VALUE pair, at index i1.
SettingsAt(line, i1, settings) ==
  IF CharAt(line, i1) = kNUL THEN [e |-> 0, settings |-> settings]
  ELSE SettingsAfterName(line, settings, ScanName(line, i1, <<>>))

\* The outer loop of ParseSettings; settings is the vector as filled so far.
SettingsLoop(line, idx, settings) ==
  SettingsAt(line, SkipBlanks(line, idx), settings)

ParseSettings(line, idx) ==
  IF idx >= Len(line) THEN [e |-> -1, settings |-> <<>>]
  ELSE SettingsLoop(line, idx, <<>>)

\* The junk check between the start time and the arrow.
RECURSIVE OnlyBlanksToNul(_, _)
OnlyBlanksToNul(line, idx) ==
  IF CharAt(line, idx) = kNUL THEN TRUE
  ELSE IF CharAt(line, idx) # kSPACE /\ CharAt(line, idx) # kTAB THEN FALSE
  ELSE OnlyBlanksToNul(line, idx + 1)

\* After ParseSettings (r3); c2 has both times.
TimingsAfterSettings(c2, r3) ==
  [e |-> r3.e, cue |-> [c2 EXCEPT !.settings = r3.settings]]

\* After the ParseTime of the stop time (r2); line2 ends with the added NUL.
TimingsAfterStop(line2, c1, r2) ==
  IF r2.e # 0 THEN [e |-> r2.e, cue |-> [c1 EXCEPT !.stop_time = r2.t]]
  ELSE TimingsAfterSettings([c1 EXCEPT !.stop_time = r2.t],
                            ParseSettings(line2, r2.idx))

\* After the ParseTime of the start time (r1); line1 has a NUL at the arrow.
TimingsAfterStart(line1, arrow_pos, c, r1) ==
  IF r1.e # 0 THEN [e |-> r1.e, cue |-> [c EXCEPT !.start_time = r1.t]]
  ELSE IF ~OnlyBlanksToNul(line1, r1.idx)
    THEN [e |-> -1, cue |-> [c EXCEPT !.start_time = r1.t]]
  ELSE TimingsAfterStop(Append(line1, kNUL), [c EXCEPT !.start_time = r1.t],
                        ParseTime(Append(line1, kNUL), arrow_pos + 3, c.stop_time))

\* The line with a NUL placed at the start of the arrow token.
NulAtArrow(line, arrow_pos) == [line EXCEPT ![arrow_pos + 1] = kNUL]

\* ParseTimingsLine: the result code and the three cue fields as written.
ParseTimingsLine(line, arrow_pos, c) ==
  IF arrow_pos < 0 \/ arrow_pos >= Len(line) THEN [e |-> -1, cue |-> c]
  ELSE TimingsAfterStart(NulAtArrow(line, arrow_pos), arrow_pos, c,
                         ParseTime(NulAtArrow(line, arrow_pos), 0, c.start_time))

----------------------------------------------------------------------------
(* Parser::Parse *)

\* line.find("-->"): the 0-based offset of the first occurrence, or -1 (npos).
RECURSIVE FindFrom(_, _, _)
FindFrom(line, pat, off) ==
  IF off + Len(pat) > Len(line) THEN -1
  ELSE IF SubSeq(line, off + 1, off + Len(pat)) = pat THEN off
  ELSE FindFrom(line, pat, off + 1)

Find(line, pat) == FindFrom(line, pat, 0)

RECURSIVE FirstNonBlankLine(_)

\* The body of the first loop of Parse, after ParseLine.
FirstNonBlankStep(l) ==
  IF l.e # 0 THEN l
  ELSE IF l.line # <<>> THEN l
  ELSE FirstNonBlankLine(l.p)

\* The first loop of Parse: the first non-blank line.
FirstNonBlankLine(p) == FirstNonBlankStep(ParseLine(p))

RECURSIVE PayloadLoop(_, _)

\* The body of the payload loop, after ParseLine.
PayloadStep(l, payload) ==
  IF l.e < 0 THEN [e |-> l.e, p |-> l.p, payload |-> payload]
  ELSE IF l.line = <<>> THEN [e |-> 0, p |-> l.p, payload |-> payload]
  ELSE PayloadLoop(l.p, Append(payload, l.line))

\* The payload loop of Parse; payload is the vector as filled so far.
PayloadLoop(p, payload) == PayloadStep(ParseLine(p), payload)

\* Mutant of ParseAfterPayload: an empty payload is let through.
ParseAfterPayloadNoCheck(c, pl) ==
  IF pl.e < 0 THEN [e |-> pl.e, p |-> pl.p, cue |-> [c EXCEPT !.payload = pl.payload]]
  ELSE [e |-> 0, p |-> pl.p, cue |-> [c EXCEPT !.payload = pl.payload]]

\* ParseAfterPayload for a payload loop that did not clear the vector first:
\* the lines read come after the ones the Cue held.
ParseAfterPayloadKeepsOld(c, pl) ==
  IF pl.e < 0
    THEN [e |-> pl.e, p |-> pl.p, cue |-> [c EXCEPT !.payload = c.payload \o pl.payload]]
  ELSE IF c.payload \o pl.payload = <<>>
    THEN [e |-> -1, p |-> pl.p, cue |-> c]
  ELSE [e |-> 0, p |-> pl.p, cue |-> [c EXCEPT !.payload = c.payload \o pl.payload]]

\* After the payload loop (pl); c has the timings.
ParseAfterPayload(c, pl) ==
  IF pl.e < 0 THEN [e |-> pl.e, p |-> pl.p, cue |-> [c EXCEPT !.payload = pl.payload]]
  ELSE IF pl.payload = <<>>
    THEN [e |-> -1, p |-> pl.p, cue |-> [c EXCEPT !.payload = pl.payload]]
  ELSE [e |-> 0, p |-> pl.p, cue |-> [c EXCEPT !.payload = pl.payload]]

\* After ParseTimingsLine (t).
ParseAfterTimings(p, t) ==
  IF t.e # 0 THEN [e |-> t.e, p |-> p, cue |-> t.cue]
  ELSE ParseAfterPayload(t.cue, PayloadLoop(p, <<>>))

\* Parse from the timings line on; off is where the arrow token was found.
ParseCueBody(p, line, off, c) ==
  ParseAfterTimings(p, ParseTimingsLine(line, off, c))

\* After the ParseLine that follows the identifier line.
ParseSecondLine(l2, c) ==
  IF l2.e # 0 THEN [e |-> l2.e, p |-> l2.p, cue |-> c]
  ELSE IF Find(l2.line, Arrow) < 0 THEN [e |-> -1, p |-> l2.p, cue |-> c]
  ELSE ParseCueBody(l2.p, l2.line, Find(l2.line, Arrow), c)

\* Mutant of ParseFirstLine: the identifier is cleared before the result of
\* the first loop is looked at.
ParseFirstLineClearsEarly(l, c) ==
  IF l.e # 0 THEN [e |-> l.e, p |-> l.p, cue |-> [c EXCEPT !.identifier = <<>>]]
  ELSE IF Find(l.line, Arrow) >= 0
    THEN ParseCueBody(l.p, l.line, Find(l.line, Arrow),
                      [c EXCEPT !.identifier = <<>>])
  ELSE ParseSecondLine(ParseLine(l.p), [c EXCEPT !.identifier = l.line])

\* Mutant of ParseFirstLine: the identifier line is not stored.
ParseFirstLineKeepsIdentifier(l, c) ==
  IF l.e # 0 THEN [e |-> l.e, p |-> l.p, cue |-> c]
  ELSE IF Find(l.line, Arrow) >= 0
    THEN ParseCueBody(l.p, l.line, Find(l.line, Arrow),
                      [c EXCEPT !.identifier = <<>>])
  ELSE ParseSecondLine(ParseLine(l.p), c)

\* After the first loop (l): the line is the timings line or the identifier.
ParseFirstLine(l, c) ==
  IF l.e # 0 THEN [e |-> l.e, p |-> l.p, cue |-> c]
  ELSE IF Find(l.line, Arrow) >= 0
    THEN ParseCueBody(l.p, l.line, Find(l.line, Arrow),
                      [c EXCEPT !.identifier = <<>>])
  ELSE ParseSecondLine(ParseLine(l.p), [c EXCEPT !.identifier = l.line])

\* Parse(cue) for a cue that is not NULL.
ParseCue(p, c) == ParseFirstLine(FirstNonBlankLine(p), c)

\* After ParseCue (r): the Cue the pointer leads to is as written.
ParseReturn(r) == [e |-> r.e, p |-> r.p, cue |-> <<r.cue>>]

\* Parse(Cue* cue) reporting success for a NULL pointer.
ParserParseNullSucceeds(p, cptr) ==
  IF cptr = <<>> THEN [e |-> 0, p |-> p, cue |-> cptr]
  ELSE ParseReturn(ParseCue(p, cptr[1]))

\* Parse(Cue* cue): cptr is <<>> for a NULL pointer, else <<the Cue>>.
ParserParse(p, cptr) ==
  IF cptr = <<>> THEN [e |-> -1, p |-> p, cue |-> cptr]
  ELSE ParseReturn(ParseCue(p, cptr[1]))

----------------------------------------------------------------------------
(* The calls a client makes *)

ZeroTime == Time(0, 0, 0, 0)

Cue(id, start, stop, settings, payload) ==
  [identifier |-> id, start_time |-> start, stop_time |-> stop,
   settings |-> settings, payload |-> payload]

\* A freshly constructed Cue.
EmptyCue == Cue(<<>>, ZeroTime, ZeroTime, <<>>, <<>>)

\* A Cue that holds an earlier cue's contents.
UsedCue ==
  Cue(Txt(<<"o", "l", "d">>), Time(1, 2, 3, 4), Time(5, 6, 7, 8),
      <<Setting(Txt(<<"k">>), Txt(<<"v">>))>>, <<Txt(<<"p">>)>>)

\* The history of a call that did nothing.
NoIO == [reads |-> 0, ends |-> 0, seen |-> <<>>, clobbered |-> FALSE]

\* A call returned r: the parser is left as r.p and the client has r.e.
Returned(r) ==
  /\ pos' = r.p.pos
  /\ unget' = r.p.unget
  /\ ret' = r.e
  /\ io' = [reads |-> r.p.reads, ends |-> r.p.ends, seen |-> r.p.seen,
            clobbered |-> r.p.clobbered]

\* Parse returned r: the client's Cue is as Parse wrote it, and a client
\* that passed a Cue and was told success has one more cue.
ReturnedCue(r) ==
  /\ Returned(r)
  /\ cue' = IF r.cue = <<>> THEN cue ELSE r.cue[1]
  /\ got' = IF r.e = 0 /\ r.cue # <<>> THEN Append(got, r.cue[1]) ELSE got

\* The scanner that called GetChar keeps the character it was given.
Delivered(g) ==
  delivered' = IF g.e = 0 THEN Append(delivered, g.c) ELSE delivered

\* Parser::Init(), called once on a new parser.
DoInit ==
  /\ op = "new"
  /\ Returned(ParserInit(PState(pos, unget)))
  /\ op' = "Init"
  /\ preRem' = Remaining(PState(pos, unget))
  /\ UNCHANGED <<stream, rdEnd, cue, calls, cueIn, delivered, got, shape, tin, tout>>

\* Number of Parse calls a client makes.
MaxCalls == 3

\* Parser::Parse(cue), after Init succeeded: the client passes the Cue it
\* holds, one with other contents, or NULL.
DoParse ==
  /\ \/ op = "Init" /\ ret = 0
     \/ op = "Parse"
  /\ calls < MaxCalls
  /\ \E cptr \in {<<cue>>, <<UsedCue>>, <<>>} :
       /\ ReturnedCue(ParserParse(PState(pos, unget), cptr))
       /\ cueIn' = cptr
  /\ op' = "Parse"
  /\ calls' = calls + 1
  /\ preRem' = Remaining(PState(pos, unget))
  /\ UNCHANGED <<stream, rdEnd, delivered, shape, tin, tout>>

\* Parser::GetChar, as the next scanner calls it after Init succeeded, until
\* the source ends.
DoGetChar ==
  /\ \/ op = "Init" /\ ret = 0
     \/ op = "GetChar" /\ ret = 0
  /\ Returned(GetChar(PState(pos, unget)))
  /\ Delivered(GetChar(PState(pos, unget)))
  /\ op' = "GetChar"
  /\ UNCHANGED <<stream, rdEnd, cue, calls, preRem, cueIn, got, shape, tin, tout>>

\* The end codes a character source may give: end-of-stream, or an error.
EndCodes == {1, -2}

\* A new parser on a source, before any call.
NewParser(s, end, sh) ==
  /\ stream = s
  /\ rdEnd = end
  /\ pos = 1
  /\ unget = -1
  /\ cue = EmptyCue
  /\ ret = 0
  /\ op = "new"
  /\ calls = 0
  /\ preRem = <<>>
  /\ cueIn = <<>>
  /\ delivered = <<>>
  /\ got = <<>>
  /\ io = NoIO
  /\ shape = sh
  /\ tin = <<>>
  /\ tout = <<>>

----------------------------------------------------------------------------
(* Headers: streams bom \o sig \o rest \o t1 \o t2 \o R *)

Terminators == {<<kLF>>, <<kCR>>, <<kCR, kLF>>}

HeaderBoms ==
  {<<>>, BOM, <<BOM[1]>>, <<BOM[1], BOM[2]>>, <<BOM[1], BOM[2], kSPACE>>,
   <<BOM[1], Ord("W"), BOM[3]>>}

HeaderSigs ==
  {idstr, Txt(<<"W", "E", "B", "V", "T">>), Txt(<<"W", "E", "B", "V", "T", "X">>),
   Txt(<<"w", "e", "b", "v", "t", "t">>)}

HeaderRests ==
  {<<>>, <<kSPACE>>, <<kTAB, Ord("x")>>, <<kSPACE, Ord("-"), Ord("W")>>,
   <<Ord("X")>>, <<kNUL>>}

HeaderTails ==
  {<<>>, Txt(<<"a">>), <<kLF, Ord("a")>>, <<kCR, Ord("a")>>, <<kSPACE>>,
   Txt(<<"1", "-", "-", ">", "2">>) \o <<kLF>> \o Txt(<<"x">>)}

HeaderShapes ==
  [bom : HeaderBoms, sig : HeaderSigs, rest : HeaderRests,
   t1 : Terminators \cup {<<>>}, t2 : Terminators \cup {<<>>}, R : HeaderTails]

ShapeText(sh) == sh.bom \o sh.sig \o sh.rest \o sh.t1 \o sh.t2 \o sh.R

InitHeader ==
  \E sh \in HeaderShapes, end \in EndCodes : NewParser(ShapeText(sh), end, sh)

NextHeader == DoInit \/ DoGetChar

SpecHeader == InitHeader /\ [][NextHeader]_vars

----------------------------------------------------------------------------
(* Claims about Init *)

NoTerminatorIn(t) == \A i \in 1..Len(t) : t[i] # kLF /\ t[i] # kCR

\* The stream has the form [BOM] WEBVTT [blank, text] terminator terminator R.
ValidHeaderShape(sh) ==
  /\ sh.bom \in {<<>>, BOM}
  /\ sh.sig = idstr
  /\ sh.rest # <<>> => (sh.rest[1] \in {kSPACE, kTAB} /\ NoTerminatorIn(sh.rest))
  /\ sh.t1 \in Terminators
  /\ sh.t2 \in Terminators

\* No source error is met while the header is read: the source ends with
\* end-of-stream, or something follows the header.
HeaderReadClean(sh) == rdEnd = 1 \/ sh.R # <<>>

\* After Init, what was and will be delivered is exactly R.
PositionedAt(R) ==
  /\ op = "Init" => (ret = 0 /\ Remaining(PState(pos, unget)) = R)
  /\ op = "GetChar" => delivered \o Remaining(PState(pos, unget)) = R

\* A bare CR terminator directly followed by LF: the two read as one CRLF.
BareCRBeforeLF(sh) ==
  \/ sh.t1 = <<kCR>> /\ sh.t2 = <<kLF>>
  \/ sh.t2 = <<kCR>> /\ sh.R # <<>> /\ sh.R[1] = kLF

\* C1 as stated: for every stream [BOM] WEBVTT [blank, text] terminator
\* terminator R, Init returns 0 and the characters GetChar delivers afterwards
\* are exactly R.
C1_Original ==
  (op # "new" /\ ValidHeaderShape(shape) /\ rdEnd = 1)
    => PositionedAt(shape.R)

\* C1 amended: the same, for the streams in which no bare CR terminator is
\* directly followed by LF (neither terminator one CR then terminator two LF,
\* nor terminator two CR then an R that begins with LF).
C1_InitPositionsAtFirstCue ==
  (op # "new" /\ ValidHeaderShape(shape) /\ HeaderReadClean(shape)
     /\ ~BareCRBeforeLF(shape))
    => PositionedAt(shape.R)

\* C1 witness: a header with a BOM, a CR, CR terminator pair and a cue text,
\* all of it delivered after Init.
C1_Witness ==
  /\ op = "GetChar"
  /\ ValidHeaderShape(shape)
  /\ shape.bom = BOM
  /\ shape.t1 = <<kCR>>
  /\ shape.t2 = <<kCR>>
  /\ Len(shape.R) > 2
  /\ delivered = shape.R

\* Whether s begins with the bytes of pre.
StartsWith(s, pre) == Len(s) >= Len(pre) /\ SubSeq(s, 1, Len(pre)) = pre

\* The stream without its byte-order mark, if it has one.
AfterBOM(s) == IF StartsWith(s, BOM) THEN SubSeq(s, 4, Len(s)) ELSE s

\* The first byte is EF but the next two are not BB BF.
BrokenBOM(s) == Len(s) >= 1 /\ s[1] = BOM[1] /\ ~StartsWith(s, BOM)

\* The six characters after the optional BOM are not WEBVTT.
BadSignature(s) == ~StartsWith(AfterBOM(s), idstr)

\* A character follows WEBVTT on its line and is neither a space nor a tab.
BadFollower(s) ==
  LET b == AfterBOM(s) IN
    /\ StartsWith(b, idstr)
    /\ Len(b) >= 7
    /\ b[7] \notin {kSPACE, kTAB, kLF, kCR}

\* The index in b, from index i on, of the first LF or CR; Len(b) + 1 if none.
RECURSIVE LineEnd(_, _)
LineEnd(b, i) ==
  IF i > Len(b) THEN i
  ELSE IF b[i] = kLF \/ b[i] = kCR THEN i
  ELSE LineEnd(b, i + 1)

\* The index after the terminator (LF, CR or CRLF) that starts at index e.
AfterTerminator(b, e) ==
  IF b[e] = kCR /\ e < Len(b) /\ b[e + 1] = kLF THEN e + 2 ELSE e + 1

\* The line after the signature line exists and is not empty.
NonEmptySecondLine(s) ==
  LET b == AfterBOM(s)
      e == LineEnd(b, 7)
  IN /\ StartsWith(b, idstr)
     /\ e <= Len(b)
     /\ AfterTerminator(b, e) <= Len(b)
     /\ b[AfterTerminator(b, e)] \notin {kLF, kCR}

MalformedHeader(s) ==
  BrokenBOM(s) \/ BadSignature(s) \/ BadFollower(s) \/ NonEmptySecondLine(s)

\* C2: Init returns an error whenever the header is malformed: a broken BOM,
\* a wrong signature, a character after WEBVTT that is neither space nor tab,
\* or a non-empty line after the signature line.
C2_MalformedHeaderFails ==
  (op = "Init" /\ MalformedHeader(stream)) => ret < 0

\* C2 witness: a well-signed header whose second line is not empty was refused.
C2_Witness ==
  /\ op = "Init"
  /\ ~BrokenBOM(stream) /\ ~BadSignature(stream) /\ ~BadFollower(stream)
  /\ NonEmptySecondLine(stream)
  /\ ret = -1

----------------------------------------------------------------------------
(* Cue streams: a valid header, then lines that each end with the stream's *)
(* terminator (the last one may end with the stream instead).              *)

\* Number of lines after the header.
MaxLines == 3

BodyLines ==
  { <<>>,
    Txt(<<"c", "1">>),
    Txt(<<"1", " ", "-", "-", ">", " ", "2">>),
    Txt(<<"H", "i">>),
    Txt(<<"1", " ", "-", "-", ">", " ", "2", " ", "a", ":">>) }

BodyLineSeqs == UNION {[1..n -> BodyLines] : n \in 0..MaxLines}

\* The lines from the i-th on, each followed by term; the last only if closed.
RECURSIVE JoinLines(_, _, _, _)
JoinLines(lines, i, term, closed) ==
  IF i > Len(lines) THEN <<>>
  ELSE lines[i]
         \o (IF i < Len(lines) \/ closed THEN term ELSE <<>>)
         \o JoinLines(lines, i + 1, term, closed)

CueStreamText(sh) ==
  idstr \o sh.term \o sh.term \o JoinLines(sh.lines, 1, sh.term, sh.closed)

CueStreamShapes ==
  [lines : BodyLineSeqs, term : Terminators, closed : BOOLEAN]

Init ==
  \E sh \in CueStreamShapes, end \in EndCodes :
    NewParser(CueStreamText(sh), end, sh)

Next == DoInit \/ DoParse

Spec == Init /\ [][Next]_vars

----------------------------------------------------------------------------
(* Claims about Parse.  The text a call started on (preRem) is read here   *)
(* as lines by position: a line runs up to the next LF or CR, and the      *)
(* terminator is that LF, that CR, or that CR with the LF after it.        *)

OnlyTerminators(b) == \A i \in 1..Len(b) : b[i] = kLF \/ b[i] = kCR

\* The first index from i on that holds no LF or CR: where the first
\* non-blank line starts; Len(b) + 1 if there is none.
RECURSIVE SkipTerminators(_, _)
SkipTerminators(b, i) ==
  IF i > Len(b) THEN i
  ELSE IF b[i] # kLF /\ b[i] # kCR THEN i
  ELSE SkipTerminators(b, i + 1)

\* The line that starts at index i.
LineAt(b, i) == SubSeq(b, i, LineEnd(b, i) - 1)

\* Where the line after the one at i starts; Len(b) + 1 if the text ends
\* with the line at i or with its terminator.
NextLineStart(b, i) ==
  IF LineEnd(b, i) > Len(b) THEN Len(b) + 1 ELSE AfterTerminator(b, LineEnd(b, i))

HasLineAt(b, i) == i <= Len(b)

\* The line contains the arrow token.
HasArrow(l) == \E k \in 1..Len(l) : k + 2 <= Len(l) /\ SubSeq(l, k, k + 2) = Arrow

\* No line at i, or an empty one.
NoTextAt(b, i) == ~HasLineAt(b, i) \/ LineAt(b, i) = <<>>

FirstLineStart(b) == SkipTerminators(b, 1)
SecondLineStart(b) == NextLineStart(b, FirstLineStart(b))
ThirdLineStart(b) == NextLineStart(b, SecondLineStart(b))

\* A Parse call on a Cue (not NULL) has returned.
ParseReturned == op = "Parse" /\ cueIn # <<>>

\* C3: once only blank lines or nothing remain, every Parse returns
\* end-of-stream and leaves every field of the passed-in cue as it was.
C3_EndOfStreamKeepsCue ==
  (ParseReturned /\ rdEnd = 1 /\ OnlyTerminators(preRem))
    => (ret = 1 /\ cue = cueIn[1] /\ Remaining(PState(pos, unget)) = <<>>)

\* C3 witness: the third call, after a cue and an end-of-stream were returned,
\* returns end-of-stream again with the cue's contents in place.
C3_Witness ==
  /\ ParseReturned
  /\ calls = 3
  /\ ret = 1
  /\ preRem = <<>>
  /\ rdEnd = 1
  /\ cueIn = <<cue>>
  /\ cue.payload = <<Txt(<<"H", "i">>)>>
  /\ cue.stop_time = Time(0, 0, 2, 0)

\* C4 as stated: Parse returns end-of-stream only when every line it read
\* was empty; a stream that ends after a non-empty line gives an error.
C4_EndOfStreamOnlyWithoutContent ==
  (ParseReturned /\ ret = 1) => OnlyTerminators(preRem)

\* The text starts (after blank lines) with a timings line, or with an
\* identifier line and a timings line, and no payload line follows.
TimingsWithoutPayload(b) ==
  /\ HasLineAt(b, FirstLineStart(b))
  /\ IF HasArrow(LineAt(b, FirstLineStart(b)))
       THEN NoTextAt(b, SecondLineStart(b))
       ELSE /\ HasLineAt(b, SecondLineStart(b))
            /\ HasArrow(LineAt(b, SecondLineStart(b)))
            /\ NoTextAt(b, ThirdLineStart(b))

\* C5: Parse returns success only with a payload of at least one line, all
\* lines non-empty; a timings line followed directly by an empty line or by
\* the end of the stream makes Parse return an error.
C5_PayloadNeverEmpty ==
  ParseReturned =>
    /\ ret = 0 => /\ Len(cue.payload) >= 1
                  /\ \A i \in 1..Len(cue.payload) : cue.payload[i] # <<>>
    /\ TimingsWithoutPayload(preRem) => ret < 0

\* C5 witness: the timings line 1 --> 2 was parsed, no payload followed, and
\* Parse returned an error.
C5_Witness ==
  /\ ParseReturned
  /\ TimingsWithoutPayload(preRem)
  /\ ret = -1
  /\ cue.start_time = Time(0, 0, 1, 0)
  /\ cue.stop_time = Time(0, 0, 2, 0)
  /\ cue.payload = <<>>

\* C6: if the first non-blank line has the arrow token, the identifier is
\* empty and that line is the timings line (the payload starts on the next
\* line); otherwise the identifier is that line, the next line must have the
\* arrow token (error if it has not), and the payload starts after it.
C6_IdentifierOrTimings ==
  (ParseReturned /\ rdEnd = 1 /\ HasLineAt(preRem, FirstLineStart(preRem))) =>
    IF HasArrow(LineAt(preRem, FirstLineStart(preRem)))
      THEN /\ cue.identifier = <<>>
           /\ ret = 0 => cue.payload[1] = LineAt(preRem, SecondLineStart(preRem))
      ELSE /\ cue.identifier = LineAt(preRem, FirstLineStart(preRem))
           /\ (HasLineAt(preRem, SecondLineStart(preRem))
                 /\ ~HasArrow(LineAt(preRem, SecondLineStart(preRem)))) => ret = -1
           /\ ret = 0 => cue.payload[1] = LineAt(preRem, ThirdLineStart(preRem))

\* C6 witness: an identifier line followed by a line without the arrow token
\* was refused, with the identifier set.
C6_Witness ==
  /\ ParseReturned
  /\ rdEnd = 1
  /\ cue.identifier = Txt(<<"c", "1">>)
  /\ HasLineAt(preRem, SecondLineStart(preRem))
  /\ LineAt(preRem, SecondLineStart(preRem)) = Txt(<<"H", "i">>)
  /\ ret = -1

----------------------------------------------------------------------------
(* Well-formed streams: a valid header, then cue blocks written out from   *)
(* the cues they stand for, separated by blank lines.                      *)

\* The decimal digits of n, at least w of them (zero-padded).
RECURSIVE Digits(_, _)
Digits(n, w) ==
  IF n < 10 /\ w <= 1 THEN <<chZero + n>>
  ELSE Append(Digits(n \div 10, w - 1), chZero + (n % 10))

\* A timestamp for t: HH:MM:SS.mmm, MM:SS.mmm (hours 0), or seconds only.
WriteTime(t, style) ==
  IF style = "hms"
    THEN Digits(t.hours, 2) \o <<chColon>> \o Digits(t.minutes, 2) \o <<chColon>>
           \o Digits(t.seconds, 2) \o <<chDot>> \o Digits(t.milliseconds, 3)
  ELSE IF style = "ms"
    THEN Digits(t.minutes, 2) \o <<chColon>> \o Digits(t.seconds, 2)
           \o <<chDot>> \o Digits(t.milliseconds, 3)
  ELSE Digits(t.hours * 3600 + t.minutes * 60 + t.seconds, 1)
         \o (IF t.milliseconds = 0 THEN <<>> ELSE <<chDot>> \o Digits(t.milliseconds, 3))

RECURSIVE WriteSettings(_, _)
WriteSettings(settings, i) ==
  IF i > Len(settings) THEN <<>>
  ELSE <<kSPACE>> \o settings[i].name \o <<chColon>> \o settings[i].value
         \o WriteSettings(settings, i + 1)

\* The block of the cue d.cue: d.lead extra blank lines, the identifier line
\* if there is an identifier, the timings line, the payload lines.
WriteCue(d, term, closed) ==
  JoinLines([i \in 1..d.lead |-> <<>>], 1, term, TRUE)
    \o (IF d.cue.identifier = <<>> THEN <<>> ELSE d.cue.identifier \o term)
    \o WriteTime(d.cue.start_time, d.startStyle) \o <<kSPACE>> \o Arrow \o <<kSPACE>>
    \o WriteTime(d.cue.stop_time, d.stopStyle)
    \o WriteSettings(d.cue.settings, 1) \o term
    \o JoinLines(d.cue.payload, 1, term, closed)

\* The blocks from the i-th on, a blank line after each but the last.
RECURSIVE WriteCues(_, _, _, _)
WriteCues(ds, i, term, closed) ==
  IF i > Len(ds) THEN <<>>
  ELSE IF i = Len(ds) THEN WriteCue(ds[i], term, closed)
  ELSE WriteCue(ds[i], term, TRUE) \o term \o WriteCues(ds, i + 1, term, closed)

WellFormedText(sh) ==
  idstr \o sh.term \o sh.term \o WriteCues(sh.cues, 1, sh.term, sh.closed)

\* The cue of the text WEBVTT, blank line,
\* 00:00:01.000 --> 00:00:02.500 align:middle line:90%, Hello world.
ExampleCue ==
  Cue(<<>>, Time(0, 0, 1, 0), Time(0, 0, 2, 500),
      <<Setting(Txt(<<"a", "l", "i", "g", "n">>), Txt(<<"m", "i", "d", "d", "l", "e">>)),
        Setting(Txt(<<"l", "i", "n", "e">>), Txt(<<"9", "0", "%">>))>>,
      <<Txt(<<"H", "e", "l", "l", "o", " ", "w", "o", "r", "l", "d">>)>>)

\* That text, as written in the claim, with LF line ends.
ExampleText ==
  Txt(<<"W", "E", "B", "V", "T", "T">>) \o <<kLF, kLF>>
    \o Txt(<<"0", "0", ":", "0", "0", ":", "0", "1", ".", "0", "0", "0", " ", "-", "-", ">",
             " ", "0", "0", ":", "0", "0", ":", "0", "2", ".", "5", "0", "0", " ",
             "a", "l", "i", "g", "n", ":", "m", "i", "d", "d", "l", "e", " ",
             "l", "i", "n", "e", ":", "9", "0", "%">>)
    \o <<kLF>> \o Txt(<<"H", "e", "l", "l", "o", " ", "w", "o", "r", "l", "d">>)

\* The cues that are written out, each with how it is written.
CueSamples ==
  { [cue |-> ExampleCue, startStyle |-> "hms", stopStyle |-> "hms", lead |-> 0],
    [cue |-> Cue(Txt(<<"c", "1">>), Time(0, 1, 1, 0), Time(1, 0, 59, 7), <<>>,
                 <<Txt(<<"H", "i">>), Txt(<<"x", " ", "y">>)>>),
     startStyle |-> "s", stopStyle |-> "s", lead |-> 1],
    [cue |-> Cue(Txt(<<"2">>), Time(0, 59, 0, 40), Time(123, 0, 0, 999),
                 <<Setting(Txt(<<"a">>), Txt(<<"b">>)), Setting(Txt(<<"a">>), Txt(<<"c">>))>>,
                 <<Txt(<<"-", ">">>)>>),
     startStyle |-> "ms", stopStyle |-> "hms", lead |-> 0],
    [cue |-> Cue(<<>>, Time(0, 0, 0, 0), Time(0, 0, 0, 0), <<>>, <<Txt(<<"1">>)>>),
     startStyle |-> "s", stopStyle |-> "ms", lead |-> 2] }

\* Number of cues in a well-formed stream.
MaxCues == 2

WellFormedShapes ==
  [cues : UNION {[1..n -> CueSamples] : n \in 0..MaxCues},
   term : Terminators, closed : BOOLEAN]

InitWellFormed ==
  \E sh \in WellFormedShapes : NewParser(WellFormedText(sh), 1, sh)

SpecWellFormed == InitWellFormed /\ [][Next]_vars

\* C7: on a well-formed stream Init succeeds and the Parse calls return the
\* cues one per call in stream order, each with the identifier, times,
\* settings and payload written in its block, and then end-of-stream; the
\* example text yields exactly the example cue.
C7_CuesInOrder ==
  /\ op = "Init" => ret = 0
  /\ Len(got) <= Len(shape.cues)
  /\ \A i \in 1..Len(got) : got[i] = shape.cues[i].cue
  /\ ParseReturned =>
       \/ ret = 0 /\ cue = shape.cues[Len(got)].cue
       \/ ret = 1 /\ Len(got) = Len(shape.cues)
  /\ (stream = ExampleText /\ ParseReturned /\ ret = 1) => got = <<ExampleCue>>

\* C7 witness: the example text was parsed to its one cue, and the next call
\* returned end-of-stream.
C7_Witness ==
  /\ stream = ExampleText
  /\ ParseReturned
  /\ ret = 1
  /\ got = <<ExampleCue>>

----------------------------------------------------------------------------
(* The Time value type.  Its four fields are ints; a presentation_t is a   *)
(* long long, held as limbs.                                               *)

\* Time::operator==
TimeEquals(a, b) ==
  IF a.hours # b.hours THEN FALSE
  ELSE IF a.minutes # b.minutes THEN FALSE
  ELSE IF a.seconds # b.seconds THEN FALSE
  ELSE a.milliseconds = b.milliseconds

\* Time::operator< without the comparison of the seconds.
TimeLessSkipsSeconds(a, b) ==
  IF a.hours < b.hours THEN TRUE
  ELSE IF a.hours > b.hours THEN FALSE
  ELSE IF a.minutes < b.minutes THEN TRUE
  ELSE IF a.minutes > b.minutes THEN FALSE
  ELSE a.milliseconds < b.milliseconds

\* Time::operator<
TimeLess(a, b) ==
  IF a.hours < b.hours THEN TRUE
  ELSE IF a.hours > b.hours THEN FALSE
  ELSE IF a.minutes < b.minutes THEN TRUE
  ELSE IF a.minutes > b.minutes THEN FALSE
  ELSE IF a.seconds < b.seconds THEN TRUE
  ELSE IF a.seconds > b.seconds THEN FALSE
  ELSE a.milliseconds < b.milliseconds

\* Time::presentation() const: every product and sum is a long long.
presentation(t) ==
  WAdd(WAdd(WAdd(WMulSmall(WMulSmall(W64(t.hours), 1000), 3600),
                 WMulSmall(WMulSmall(W64(t.minutes), 1000), 60)),
            WMulSmall(W64(t.seconds), 1000)),
       W64(t.milliseconds))

\* The rest of presentation(d) once seconds (sec) and milliseconds (ms) are
\* assigned: all int arithmetic, and no product exceeds |sec|.
SplitSeconds(sec, ms) ==
  Time(CDiv(CDiv(sec, 60), 60),
       CDiv(sec, 60) - 60 * CDiv(CDiv(sec, 60), 60),
       sec - 60 * CDiv(sec, 60),
       ms)

\* Time::presentation(d) from `milliseconds = d - 1000 * seconds` on, with
\* the int seconds (sec) and the exact value of 1000 * seconds (prod).  The
\* product is an int multiplication: where its value is not an int the
\* behaviour is undefined, and a build either wraps it to 32 bits or traps
\* (leaving the object with the fields written so far).  The difference is a
\* long long, narrowed to the int milliseconds.
SetMilliseconds(this, d, sec, prod) ==
  IF WFitsInt(prod)
    THEN {[trap |-> FALSE, t |-> SplitSeconds(sec, WToInt(WSub(d, prod)))]}
    ELSE {[trap |-> FALSE,
           t |-> SplitSeconds(sec, WToInt(WSub(d, W64(WToInt(prod)))))],
          [trap |-> TRUE, t |-> [this EXCEPT !.seconds = sec]]}

\* Time::presentation(d) after the error branch: `seconds = d / 1000`
\* narrows the long long quotient to the int field.
SetSeconds(this, d, sec) ==
  SetMilliseconds(this, d, sec, WMulSmall(W64(sec), 1000))

\* Time::presentation(presentation_t d) on the object this: the outcomes a
\* build can produce.
SetPresentation(this, d) ==
  IF WNegative(d) THEN {[trap |-> FALSE, t |-> Time(0, 0, 0, 0)]}
  ELSE SetSeconds(this, d, WToInt(WDivSmall(d, 1000)))

----------------------------------------------------------------------------
(* Times: a client that holds two Times a and b *)

\* Field values at the ends of the normalized ranges, one step outside
\* them, and hours around the values where the seconds and the milliseconds
\* counts stop fitting an int.
TimeSamples ==
  {Time(h, m, s, ms) : h \in {0, 1, 596, 597, 596523, 596524, INT_MAX},
                       m \in {0, 59, 60}, s \in {0, 59}, ms \in {0, 999}}

InitTime ==
  /\ \E a \in TimeSamples, b \in TimeSamples : tin = [a |-> a, b |-> b]
  /\ tout = <<>>
  /\ stream = <<>>
  /\ rdEnd = 1
  /\ pos = 1
  /\ unget = -1
  /\ cue = EmptyCue
  /\ ret = 0
  /\ op = "new"
  /\ calls = 0
  /\ preRem = <<>>
  /\ cueIn = <<>>
  /\ delivered = <<>>
  /\ got = <<>>
  /\ io = NoIO
  /\ shape = <<>>

\* d = a.presentation()
DoPresentation ==
  /\ op = "new"
  /\ op' = "presentation"
  /\ tout' = [d |-> presentation(tin.a)]
  /\ UNCHANGED <<stream, rdEnd, pos, unget, cue, ret, calls, preRem, cueIn,
                 delivered, got, shape, tin, io>>

\* b.presentation(d), with the d that a.presentation() gave.
DoSetPresentation ==
  /\ op = "presentation"
  /\ op' = "roundtrip"
  /\ \E r \in SetPresentation(tin.b, tout.d) :
       tout' = [d |-> tout.d, trap |-> r.trap, t |-> r.t]
  /\ UNCHANGED <<stream, rdEnd, pos, unget, cue, ret, calls, preRem, cueIn,
                 delivered, got, shape, tin, io>>

\* a == b, a < b, a.presentation() and b.presentation()
DoCompare ==
  /\ op = "new"
  /\ op' = "compare"
  /\ tout' = [eq |-> TimeEquals(tin.a, tin.b), less |-> TimeLess(tin.a, tin.b),
              da |-> presentation(tin.a), db |-> presentation(tin.b)]
  /\ UNCHANGED <<stream, rdEnd, pos, unget, cue, ret, calls, preRem, cueIn,
                 delivered, got, shape, tin, io>>

NextTime == DoPresentation \/ DoSetPresentation \/ DoCompare

SpecTime == InitTime /\ [][NextTime]_vars

\* Whether the fields of t are in their normalized ranges.
Normalized(t) ==
  /\ t.hours >= 0
  /\ t.minutes \in 0..59
  /\ t.seconds \in 0..59
  /\ t.milliseconds \in 0..999

\* C8: for every Time a with hours >= 0 up to the 32-bit maximum and the
\* other fields in their ranges, d = a.presentation() followed by
\* presentation(d) gives a Time equal to a in all four fields.
C8_RoundTrip ==
  (op = "roundtrip" /\ Normalized(tin.a))
    => (~tout.trap /\ tout.t = tin.a)

\* C9: for Times a and b with normalized fields, a < b holds exactly when
\* a.presentation() < b.presentation(), and a == b exactly when the
\* presentation values are equal.
C9_OrderMatchesPresentation ==
  (op = "compare" /\ Normalized(tin.a) /\ Normalized(tin.b))
    => /\ tout.less <=> WLess(tout.da, tout.db)
       /\ tout.eq <=> (tout.da = tout.db)

\* C9 witness: two normalized Times with the largest hours that differ in
\* the seconds one way and in the milliseconds the other way were compared,
\* and a < b.
C9_Witness ==
  /\ op = "compare"
  /\ tin.a = Time(INT_MAX, 59, 0, 999)
  /\ tin.b = Time(INT_MAX, 59, 59, 0)
  /\ tout.less
  /\ ~tout.eq
  /\ WLess(tout.da, tout.db)

----------------------------------------------------------------------------
(* Timestamps: ParseTime on the text of one timestamp *)

\* The text of a timestamp: blanks, the groups joined by colons, the
\* fraction (with its FULL STOP) and what follows.
RECURSIVE WriteGroups(_, _)
WriteGroups(groups, i) ==
  IF i > Len(groups) THEN <<>>
  ELSE (IF i > 1 THEN <<chColon>> ELSE <<>>)
         \o Digits(groups[i], 1) \o WriteGroups(groups, i + 1)

TimestampText(sh) ==
  sh.lead \o WriteGroups(sh.groups, 1) \o sh.frac \o sh.tail

\* Seconds counts around the minute, the hour and the int boundaries.
SecondsSamples ==
  {0, 1, 59, 60, 61, 119, 3599, 3600, 3661, 86399, 360000,
   INT_MAX - 1, INT_MAX}

TimestampShapes ==
  [groups : {<<n>> : n \in SecondsSamples}
              \cup {<<1, 1>>, <<59, 59>>, <<60, 1>>, <<0, 1, 1>>, <<100, 59, 59>>},
   frac : {<<>>, Txt(<<".", "5">>), Txt(<<".", "2", "5", "0">>)},
   lead : {<<>>, <<kSPACE, kTAB>>},
   tail : {<<>>, <<kSPACE>>, Txt(<<" ", "-", "-", ">">>)}]

\* The Time object the caller passes, as constructed or as an earlier call
\* left it.
PriorTimes == {ZeroTime, Time(5, 6, 7, 8)}

InitParseTime ==
  /\ \E sh \in TimestampShapes, t \in PriorTimes :
       /\ shape = sh
       /\ tin = [line |-> TimestampText(sh), idx |-> 0, t |-> t]
  /\ tout = <<>>
  /\ stream = <<>>
  /\ rdEnd = 1
  /\ pos = 1
  /\ unget = -1
  /\ cue = EmptyCue
  /\ ret = 0
  /\ op = "new"
  /\ calls = 0
  /\ preRem = <<>>
  /\ cueIn = <<>>
  /\ delivered = <<>>
  /\ got = <<>>
  /\ io = NoIO

\* Parser::ParseTime(line, idx, &t)
DoParseTime ==
  /\ op = "new"
  /\ op' = "ParseTime"
  /\ tout' = ParseTime(tin.line, tin.idx, tin.t)
  /\ UNCHANGED <<stream, rdEnd, pos, unget, cue, ret, calls, preRem, cueIn,
                 delivered, got, shape, tin, io>>

NextParseTime == DoParseTime

SpecParseTime == InitParseTime /\ [][NextParseTime]_vars

\* C10: a timestamp in the seconds-only form with value n, for n up to the
\* 32-bit maximum, is accepted and gives hours = n div 3600,
\* minutes = (n div 60) mod 60 and seconds = n mod 60; "61" gives 0h 1m 1s 0ms.
C10_SecondsOnly ==
  (op = "ParseTime" /\ Len(shape.groups) = 1)
    => /\ tout.e = 0
       /\ tout.t.hours = shape.groups[1] \div 3600
       /\ tout.t.minutes = (shape.groups[1] \div 60) % 60
       /\ tout.t.seconds = shape.groups[1] % 60
       /\ (tin.line = Txt(<<"6", "1">>)) => tout.t = Time(0, 1, 1, 0)

\* C10 witness: the timestamp with the largest seconds count was parsed to
\* 596523 hours, 14 minutes and 7 seconds.
C10_Witness ==
  /\ op = "ParseTime"
  /\ shape.groups = <<INT_MAX>>
  /\ tout.e = 0
  /\ tout.t.hours = 596523
  /\ tout.t.minutes = 14
  /\ tout.t.seconds = 7

----------------------------------------------------------------------------
(* Timestamps of every form: groups in and out of range, fractions of one  *)
(* to four digits.                                                         *)

\* The groups joined by colons, each written with at least w digits.
RECURSIVE WriteGroupsWide(_, _, _)
WriteGroupsWide(groups, i, w) ==
  IF i > Len(groups) THEN <<>>
  ELSE (IF i > 1 THEN <<chColon>> ELSE <<>>)
         \o Digits(groups[i], w) \o WriteGroupsWide(groups, i + 1, w)

\* Values of a group at and around the limit of minutes and seconds.
GroupSamples == {0, 59, 60, 61}

\* The digits of a fraction.
FractionDigits ==
  {Txt(<<"5">>), Txt(<<"0", "5">>), Txt(<<"0", "0", "5">>), Txt(<<"0", "5", "0">>),
   Txt(<<"5", "0", "0">>), Txt(<<"9", "9", "9">>), Txt(<<"0", "0", "0", "0">>),
   Txt(<<"0", "5", "0", "0">>), Txt(<<"1", "2", "3", "4">>), <<>>}

\* A fraction: none, or a FULL STOP and digits.
FractionSamples == {<<>>} \cup {<<chDot>> \o d : d \in FractionDigits}

\* Time objects as a caller may pass them, one with fields out of range.
StaleTimes == PriorTimes \cup {Time(9, 99, 99, 5000)}

FormShapes ==
  [groups : UNION {[1..n -> GroupSamples] : n \in 1..3},
   width : {1, 2},
   frac : FractionSamples,
   tail : {<<>>, <<kSPACE>>}]

FormText(sh) == WriteGroupsWide(sh.groups, 1, sh.width) \o sh.frac \o sh.tail

InitForms ==
  /\ \E sh \in FormShapes, t \in StaleTimes :
       /\ shape = sh
       /\ tin = [line |-> FormText(sh), idx |-> 0, t |-> t]
  /\ tout = <<>>
  /\ stream = <<>>
  /\ rdEnd = 1
  /\ pos = 1
  /\ unget = -1
  /\ cue = EmptyCue
  /\ ret = 0
  /\ op = "new"
  /\ calls = 0
  /\ preRem = <<>>
  /\ cueIn = <<>>
  /\ delivered = <<>>
  /\ got = <<>>
  /\ io = NoIO

SpecForms == InitForms /\ [][NextParseTime]_vars

\* Whether a minutes group or the seconds group of an [HH:]MM:SS timestamp
\* is 60 or more.
GroupOutOfRange(groups) ==
  /\ Len(groups) >= 2
  /\ \E i \in (Len(groups) - 1)..Len(groups) : groups[i] >= 60

\* C11: ParseTime rejects every MM:SS and HH:MM:SS timestamp with a minutes
\* or seconds group of 60 or more ("00:00:61.500" among them), and after
\* every successful ParseTime minutes and seconds are in 0..59 and
\* milliseconds in 0..999.
C11_FieldsInRange ==
  /\ (op = "ParseTime" /\ GroupOutOfRange(shape.groups)) => tout.e < 0
  /\ (op = "ParseTime" /\ tout.e = 0)
       => /\ tout.t.minutes \in 0..59
          /\ tout.t.seconds \in 0..59
          /\ tout.t.milliseconds \in 0..999
  /\ (op = "ParseTime"
        /\ tin.line = Txt(<<"0", "0", ":", "0", "0", ":", "6", "1", ".", "5", "0", "0">>))
       => tout.e < 0

\* C11 witness: "00:00:61.500" was rejected, with a Time object whose
\* fields were out of range before the call.
C11_Witness ==
  /\ op = "ParseTime"
  /\ tin.line = Txt(<<"0", "0", ":", "0", "0", ":", "6", "1", ".", "5", "0", "0">>)
  /\ tin.t = Time(9, 99, 99, 5000)
  /\ tout.e = -1

----------------------------------------------------------------------------
(* Numbers: ParseNumber on a run of digits inside a line *)

\* The characters of the decimal digits ds.
Dig(ds) == [i \in DOMAIN ds |-> chZero + ds[i]]

\* Digit runs without leading zeros: small values, values around INT_MAX,
\* around 2^32 and around 2^64, and longer ones; and no digits at all.
RunSamples ==
  {Dig(<<0>>), Dig(<<7>>), Dig(<<4, 2>>),
   Dig(<<9, 9, 9, 9, 9, 9, 9, 9, 9>>),
   Dig(<<1, 0, 0, 0, 0, 0, 0, 0, 0, 0>>),
   Dig(<<2, 1, 4, 7, 4, 8, 3, 6, 4, 6>>),
   Dig(<<2, 1, 4, 7, 4, 8, 3, 6, 4, 7>>),
   Dig(<<2, 1, 4, 7, 4, 8, 3, 6, 4, 8>>),
   Dig(<<2, 1, 4, 7, 4, 8, 3, 6, 5, 0>>),
   Dig(<<3, 0, 0, 0, 0, 0, 0, 0, 0, 0>>),
   Dig(<<4, 2, 9, 4, 9, 6, 7, 2, 9, 6>>),
   Dig(<<4, 2, 9, 4, 9, 6, 7, 2, 9, 7>>),
   Dig(<<9, 9, 9, 9, 9, 9, 9, 9, 9, 9>>),
   Dig(<<2, 1, 4, 7, 4, 8, 3, 6, 4, 7, 0>>),
   Dig(<<1, 8, 4, 4, 6, 7, 4, 4, 0, 7, 3, 7, 0, 9, 5, 5, 1, 6, 1, 6>>),
   Dig(<<1, 8, 4, 4, 6, 7, 4, 4, 0, 7, 3, 7, 0, 9, 5, 5, 1, 6, 1, 7>>),
   Dig(<<9, 9, 9, 9, 9, 9, 9, 9, 9, 9, 9, 9, 9, 9, 9, 9, 9, 9, 9, 9, 9, 9, 9>>),
   <<>>}

\* A run in a line: text before it, leading zeros, the run, and what follows.
NumberShapes ==
  [before : {<<>>, Txt(<<"a", ":">>)},
   zeros : {0, 1, 12},
   core : RunSamples,
   follow : {<<>>, <<chColon>>, <<kSPACE>>, Txt(<<"x", "1">>)}]

\* The digits of the run of sh, leading zeros included.
RunOf(sh) == [i \in 1..sh.zeros |-> chZero] \o sh.core

NumberText(sh) == sh.before \o RunOf(sh) \o sh.follow

InitParseNumber ==
  /\ \E sh \in NumberShapes :
       /\ shape = sh
       /\ tin = [line |-> NumberText(sh), idx |-> Len(sh.before)]
  /\ tout = <<>>
  /\ stream = <<>>
  /\ rdEnd = 1
  /\ pos = 1
  /\ unget = -1
  /\ cue = EmptyCue
  /\ ret = 0
  /\ op = "new"
  /\ calls = 0
  /\ preRem = <<>>
  /\ cueIn = <<>>
  /\ delivered = <<>>
  /\ got = <<>>
  /\ io = NoIO

\* Parser::ParseNumber(line, idx)
DoParseNumber ==
  /\ op = "new"
  /\ op' = "ParseNumber"
  /\ tout' = ParseNumber(tin.line, tin.idx)
  /\ UNCHANGED <<stream, rdEnd, pos, unget, cue, ret, calls, preRem, cueIn,
                 delivered, got, shape, tin, io>>

NextParseNumber == DoParseNumber

SpecParseNumber == InitParseNumber /\ [][NextParseNumber]_vars

\* The run without its leading zeros (a run of zeros keeps one).
RECURSIVE Significant(_)
Significant(run) ==
  IF Len(run) > 1 /\ run[1] = chZero THEN Significant(Tail(run)) ELSE run

\* s > t for digit sequences of the same length.
DigitsGreater(s, t) ==
  \E i \in 1..Len(s) : s[i] > t[i] /\ \A j \in 1..(i - 1) : s[j] = t[j]

\* Whether the decimal value of the run exceeds INT_MAX, by its digits.
ExceedsIntMax(run) ==
  \/ Len(Significant(run)) > Len(Digits(INT_MAX, 1))
  \/ /\ Len(Significant(run)) = Len(Digits(INT_MAX, 1))
     /\ DigitsGreater(Significant(run), Digits(INT_MAX, 1))

\* The decimal value of a run that does not exceed INT_MAX.
RECURSIVE DecimalValue(_)
DecimalValue(run) ==
  IF run = <<>> THEN 0
  ELSE 10 * DecimalValue(SubSeq(run, 1, Len(run) - 1)) + (run[Len(run)] - chZero)

\* C12: on a run of digits whose value exceeds 2147483647 ParseNumber
\* returns error, whatever the length of the run; on a run of at most that
\* value it returns the value and leaves the index past the last digit.
C12_NumberWithinInt ==
  (op = "ParseNumber" /\ RunOf(shape) # <<>>)
    => IF ExceedsIntMax(RunOf(shape))
         THEN tout.val = -1
         ELSE /\ tout.val = DecimalValue(Significant(RunOf(shape)))
              /\ tout.idx = Len(shape.before) + Len(RunOf(shape))

\* C12 witness: a run of 2^64 + 1 behind twelve zeros was refused, where a
\* wrapped-around value would have been 1.
C12_Witness ==
  /\ op = "ParseNumber"
  /\ shape.zeros = 12
  /\ shape.core = Dig(<<1, 8, 4, 4, 6, 7, 4, 4, 0, 7, 3, 7, 0, 9, 5, 5, 1, 6, 1, 7>>)
  /\ tout.val = -1

----------------------------------------------------------------------------
(* The fraction of a timestamp, over the timestamps of every form *)

\* The digits of the fraction of sh.
FractionOf(sh) == SubSeq(sh.frac, 2, Len(sh.frac))

\* What one unit of a fraction of n digits is worth in milliseconds.
FractionUnit(n) == IF n = 1 THEN 100 ELSE IF n = 2 THEN 10 ELSE 1

\* C15: the fraction after the FULL STOP must be 1 to 3 digits and is
\* scaled by its digit count (one digit: hundreds, two: tens, three: as
\* written), and a fraction of four or more digits is rejected.
C15_FractionByDigitCount ==
  (op = "ParseTime" /\ ~GroupOutOfRange(shape.groups) /\ shape.frac # <<>>)
    => IF Len(FractionOf(shape)) \in 1..3
         THEN /\ tout.e = 0
              /\ tout.t.milliseconds
                   = DecimalValue(FractionOf(shape)) * FractionUnit(Len(FractionOf(shape)))
         ELSE tout.e < 0

----------------------------------------------------------------------------
(* Claims about the source and the pushback slot, over Init and Parse *)

\* The last call was Init or Parse.
CallReturned == op = "Init" \/ op = "Parse"

\* C13: in Init and in every Parse call UngetChar is called only with the
\* pushback slot empty; the characters GetChar delivered and the scanners
\* kept, followed by the characters still to be delivered, are the characters
\* that were to be delivered when the call started, and a character in the
\* slot is the one the source gave last.
C13_PushbackNeverOverwritten ==
  CallReturned
    => /\ ~io.clobbered
       /\ preRem = io.seen \o Remaining(PState(pos, unget))
       /\ unget >= 0 => (pos > 1 /\ stream[pos - 1] = unget)

\* C13 witness: a successful Parse call on a stream of CR-terminated lines
\* began with a character in the slot and left the slot empty: it was
\* delivered one character more than the source gave it.
C13_Witness ==
  /\ op = "Parse"
  /\ ret = 0
  /\ shape.term = <<kCR>>
  /\ unget = -1
  /\ ~io.clobbered
  /\ Len(io.seen) = io.reads - io.ends + 1

\* C14: when the source answers a read of Init or Parse with an error code,
\* the call returns that code, and that read is the last one the call makes.
C14_SourceErrorPropagates ==
  (CallReturned /\ rdEnd < 0 /\ io.ends >= 1)
    => (ret = rdEnd /\ io.ends = 1)

\* C14 witness: the source failed in the payload loop of Parse, on the read
\* that follows a CR, after a payload line was stored; Parse returned the
\* source's code.
C14_Witness ==
  /\ op = "Parse"
  /\ rdEnd < 0
  /\ ret = rdEnd
  /\ io.ends = 1
  /\ cue.payload # <<>>
  /\ stream[Len(stream)] = kCR

----------------------------------------------------------------------------
(* Lines: a scanner that calls ParseLine until it returns a code other     *)
(* than 0, on a sequence of lines written with one terminator              *)

\* Lines without LF or CR.
LineSamples == {<<>>, Txt(<<"a">>), Txt(<<"b", "c">>), <<kSPACE>>}

\* Number of lines written.
MaxWritten == 3

LineShapes ==
  [lines : UNION {[1..n -> LineSamples] : n \in 0..MaxWritten},
   term : Terminators, closed : BOOLEAN]

InitLines ==
  \E sh \in LineShapes, end \in EndCodes :
    NewParser(JoinLines(sh.lines, 1, sh.term, sh.closed), end, sh)

\* Parser::ParseLine(&line), called again while it returns 0.
DoParseLine ==
  /\ op = "new" \/ (op = "ParseLine" /\ ret = 0)
  /\ Len(got) <= Len(stream)
  /\ Returned(ParseLine(PState(pos, unget)))
  /\ got' = Append(got, [e |-> ParseLine(PState(pos, unget)).e,
                         line |-> ParseLine(PState(pos, unget)).line])
  /\ op' = "ParseLine"
  /\ preRem' = Remaining(PState(pos, unget))
  /\ UNCHANGED <<stream, rdEnd, cue, calls, cueIn, delivered, shape, tin, tout>>

NextLines == DoParseLine

SpecLines == InitLines /\ [][NextLines]_vars

\* The lines a reader is to be given: the lines written, but for an empty
\* last line without a terminator, which is no text at all.
LinesWritten(sh) ==
  IF ~sh.closed /\ sh.lines # <<>> /\ sh.lines[Len(sh.lines)] = <<>>
    THEN SubSeq(sh.lines, 1, Len(sh.lines) - 1)
    ELSE sh.lines

\* The results due on the lines ls: each line with code 0, then end-of-stream.
ResultsDue(ls) ==
  [i \in 1..(Len(ls) + 1) |->
     IF i <= Len(ls) THEN [e |-> 0, line |-> ls[i]] ELSE [e |-> 1, line |-> <<>>]]

\* C16: on a stream that ends with end-of-stream the ParseLine calls return
\* the lines written, each with code 0, and then end-of-stream, whichever of
\* LF, CR and CRLF ends every line: a CR LF pair gives no extra empty line,
\* the character after a bare CR starts the next line, and a last line
\* ended by the end of the stream is returned as a line.
C16_TerminatorsEquivalent ==
  (op = "ParseLine" /\ rdEnd = 1)
    => /\ Len(got) <= Len(LinesWritten(shape)) + 1
       /\ got = SubSeq(ResultsDue(LinesWritten(shape)), 1, Len(got))
       /\ ret # 0 => Len(got) = Len(LinesWritten(shape)) + 1

\* C16 witness: three lines ended by bare CRs, the second one empty and the
\* last one ended by the end of the stream, were all returned, and then
\* end-of-stream.
C16_Witness ==
  /\ op = "ParseLine"
  /\ rdEnd = 1
  /\ ret = 1
  /\ shape.term = <<kCR>>
  /\ ~shape.closed
  /\ shape.lines = <<Txt(<<"a">>), <<>>, Txt(<<"b", "c">>)>>
  /\ Len(got) = 4

----------------------------------------------------------------------------
(* Settings: streams of one cue whose timings line carries tokens after    *)
(* the stop time                                                           *)

\* Tokens: NAME:VALUE pairs, tokens that are not, and a pair with a NUL
\* character in its value.
TokenSamples ==
  {Txt(<<"a", ":", "b">>), Txt(<<"a", ":", "c">>), Txt(<<"x", ":", "9", "0", "%">>),
   Txt(<<":", "b">>), Txt(<<"a", ":">>), Txt(<<"a", "b">>),
   Txt(<<"a", ":", "b", ":", "c">>),
   Txt(<<"a", ":", "b">>) \o <<kNUL>> \o Txt(<<"z">>)}

\* Number of tokens on a timings line.
MaxTokens == 2

SettingsShapes ==
  [tokens : UNION {[1..n -> TokenSamples] : n \in 0..MaxTokens},
   sep : {<<kSPACE>>, <<kTAB, kSPACE>>},
   trailing : BOOLEAN]

RECURSIVE WriteTokens(_, _, _)
WriteTokens(tokens, i, sep) ==
  IF i > Len(tokens) THEN <<>>
  ELSE sep \o tokens[i] \o WriteTokens(tokens, i + 1, sep)

\* "WEBVTT", a blank line, then a cue: "1 --> 2" and the tokens, and the
\* payload line "Hi".
SettingsText(sh) ==
  idstr \o <<kLF, kLF>>
    \o Txt(<<"1", " ", "-", "-", ">", " ", "2">>)
    \o WriteTokens(sh.tokens, 1, sh.sep)
    \o (IF sh.trailing THEN sh.sep ELSE <<>>) \o <<kLF>>
    \o Txt(<<"H", "i">>) \o <<kLF>>

InitSettings ==
  \E sh \in SettingsShapes : NewParser(SettingsText(sh), 1, sh)

SpecSettings == InitSettings /\ [][Next]_vars

\* Whether the token has a colon, and the index of its first one.
HasColon(tok) == \E i \in 1..Len(tok) : tok[i] = chColon

FirstColon(tok) ==
  CHOOSE i \in 1..Len(tok) :
    tok[i] = chColon /\ \A j \in 1..(i - 1) : tok[j] # chColon

\* The NAME and the VALUE of a token with a colon.
NameOf(tok) == SubSeq(tok, 1, FirstColon(tok) - 1)

ValueOf(tok) == SubSeq(tok, FirstColon(tok) + 1, Len(tok))

\* NAME:VALUE with a non-empty NAME and a non-empty VALUE without a colon.
IsNameValue(tok) ==
  /\ HasColon(tok)
  /\ NameOf(tok) # <<>>
  /\ ValueOf(tok) # <<>>
  /\ ~HasColon(ValueOf(tok))

\* The settings the tokens stand for.
SettingsWritten(tokens) ==
  [i \in 1..Len(tokens) |-> Setting(NameOf(tokens[i]), ValueOf(tokens[i]))]

\* The first Parse call, made with a Cue, returned.
FirstParseReturned == op = "Parse" /\ calls = 1 /\ cueIn # <<>>

\* C17: when Parse returns success the cue's settings are the
\* whitespace-separated NAME:VALUE tokens that follow the stop time, in
\* order, duplicates kept; a token with an empty NAME, an empty VALUE, no
\* colon or a colon in its VALUE makes Parse return error.
C17_SettingsAreTheTokens ==
  FirstParseReturned
    => /\ ret = 0 => cue.settings = SettingsWritten(shape.tokens)
       /\ (\E i \in 1..Len(shape.tokens) : ~IsNameValue(shape.tokens[i])) => ret < 0

----------------------------------------------------------------------------
(* Timings lines: ParseTimingsLine on start, gap, arrow, stop and settings *)

\* Characters between the start timestamp and the arrow: blanks, the NUL
\* character, a letter and a digit.
GapChars == {kSPACE, kTAB, kNUL, Ord("x"), Ord("5")}

\* Number of characters between the start timestamp and the arrow.
MaxGap == 2

TimingsShapes ==
  [start : {Txt(<<"1">>), Txt(<<"0", ":", "0", "1">>), Txt(<<"1", ".", "5">>)},
   gap : UNION {[1..n -> GapChars] : n \in 0..MaxGap},
   rest : {Txt(<<" ", "2">>), Txt(<<"2", " ", "a", ":", "b">>)}]

TimingsText(sh) == sh.start \o sh.gap \o Arrow \o sh.rest

InitTimings ==
  /\ \E sh \in TimingsShapes, c \in {EmptyCue, UsedCue} :
       /\ shape = sh
       /\ tin = [line |-> TimingsText(sh), c |-> c]
  /\ tout = <<>>
  /\ stream = <<>>
  /\ rdEnd = 1
  /\ pos = 1
  /\ unget = -1
  /\ cue = EmptyCue
  /\ ret = 0
  /\ op = "new"
  /\ calls = 0
  /\ preRem = <<>>
  /\ cueIn = <<>>
  /\ delivered = <<>>
  /\ got = <<>>
  /\ io = NoIO

\* Parser::ParseTimingsLine(line, off, ...) with off = line.find("-->"), as
\* Parse calls it.
DoParseTimingsLine ==
  /\ op = "new"
  /\ op' = "ParseTimingsLine"
  /\ tout' = ParseTimingsLine(tin.line, Find(tin.line, Arrow), tin.c)
  /\ UNCHANGED <<stream, rdEnd, pos, unget, cue, ret, calls, preRem, cueIn,
                 delivered, got, shape, tin, io>>

NextTimings == DoParseTimingsLine

SpecTimings == InitTimings /\ [][NextTimings]_vars

\* The gap does not begin with a character that continues the timestamp.
GapFollowsTimestamp(sh) == sh.gap = <<>> \/ ~IsDigit(sh.gap[1])

\* C18: if any character between the end of the start timestamp and the
\* arrow token is not a space or a tab, the NUL character included,
\* ParseTimingsLine returns error.
C18_JunkBeforeArrowFails ==
  (op = "ParseTimingsLine" /\ GapFollowsTimestamp(shape)
     /\ \E i \in 1..Len(shape.gap) : shape.gap[i] # kSPACE /\ shape.gap[i] # kTAB)
    => tout.e < 0

----------------------------------------------------------------------------
(* Claims about the Cue a client passes again, over Init and Parse *)

\* C19: a Parse call that returns success leaves the same Cue contents
\* whatever the Cue held before: called from the same parser state with a
\* new Cue, with a Cue that holds another cue and with the client's Cue, it
\* succeeds with the contents the call made gave.
C19_CueReuseIndependent ==
  [][(op' = "Parse" /\ ret' = 0)
       => \A c \in {EmptyCue, UsedCue, cue} :
            /\ ParseCue(PState(pos, unget), c).e = 0
            /\ ParseCue(PState(pos, unget), c).cue = cue']_vars

\* C19 witness: Parse was passed a Cue with an identifier, a setting and a
\* payload line of an earlier cue and returned success with a Cue that has
\* no identifier, no setting and the one payload line of its block.
C19_Witness ==
  /\ op = "Parse"
  /\ ret = 0
  /\ cueIn = <<UsedCue>>
  /\ cue = Cue(<<>>, Time(0, 0, 1, 0), Time(0, 0, 2, 0), <<>>, <<Txt(<<"H", "i">>)>>)

----------------------------------------------------------------------------
(* The caller loop: Init, then Parse again while it returns success *)

\* Number of Parse calls the loop may make; more than any stream of the
\* model has cues.
MaxLoop == 5

\* Parser::Parse(cue) as the loop calls it: after a success of Init or of
\* the Parse call before, with the Cue it holds or with NULL.
DoLoopParse ==
  /\ op = "Init" \/ op = "Parse"
  /\ ret = 0
  /\ calls < MaxLoop
  /\ \E cptr \in {<<cue>>, <<>>} :
       /\ ReturnedCue(ParserParse(PState(pos, unget), cptr))
       /\ cueIn' = cptr
  /\ op' = "Parse"
  /\ calls' = calls + 1
  /\ preRem' = Remaining(PState(pos, unget))
  /\ UNCHANGED <<stream, rdEnd, delivered, shape, tin, tout>>

NextLoop == DoInit \/ DoLoopParse

\* The loop has a next step: Init is still to be called, or the last call
\* returned success and the loop calls Parse again. This is
\* ENABLED <<NextLoop>>_vars: DoInit changes op and DoLoopParse changes
\* calls, and Parse returns on every parser state.
LoopCanStep ==
  \/ op = "new"
  \/ (op = "Init" \/ op = "Parse") /\ ret = 0 /\ calls < MaxLoop

\* The loop is sequential code: it takes its next step whenever it has one.
\* This is WF_vars(NextLoop) with its enabling condition written out.
LoopFair == []<>(~LoopCanStep) \/ []<><<NextLoop>>_vars

SpecLoop == Init /\ [][NextLoop]_vars /\ LoopFair

\* A state of the loop without a next step stays as it is.
LoopStopped == ~LoopCanStep /\ UNCHANGED vars

\* The loop with its stopped states made explicit: a state the model
\* checker finds without a successor under this specification is a state
\* where LoopCanStep holds and NextLoop has no step.
SpecLoopSteps == Init /\ [][NextLoop \/ LoopStopped]_vars

\* A call read no more from the source than was left in it, but for the
\* reads the source answered with its end code, at most two.
ReadsBounded ==
  CallReturned => (io.reads - io.ends <= Len(preRem) /\ io.ends <= 2)

\* A Parse call that returned success left less to deliver than it found.
SuccessConsumes ==
  (op = "Parse" /\ ret = 0) => Len(Remaining(PState(pos, unget))) < Len(preRem)

\* The loop has ended: Init or Parse returned end-of-stream or an error.
LoopEnded == CallReturned /\ ret # 0

\* C20: on a finite stream every call of Init and of Parse returns after a
\* bounded number of reads, every Parse call that returns success has
\* consumed at least one character, and the loop "Init; Parse while it
\* returns success" eventually ends with end-of-stream or an error.
C20_LoopTerminates ==
  /\ [](ReadsBounded /\ SuccessConsumes)
  /\ <>LoopEnded

\* C20 witness: the loop ended with end-of-stream on its second Parse call,
\* after a Parse call that returned a cue.
C20_Witness ==
  /\ op = "Parse"
  /\ calls = 2
  /\ ret = 1
  /\ Len(got) = 1
  /\ io.reads >= 1

=============================================================================
